---- MODULE Spec2Model ----
(***************************************************************************)
(* A model of dsr/train_gym.py: the training loop `learn` that samples a   *)
(* batch of programs once per epoch, rolls the batch out against one gym   *)
(* environment, updates the baseline and the controller at every rollout   *)
(* step, tracks the best programs and stops an epoch early.                *)
(*                                                                         *)
(* Numbers are integers; a mean is the exact rational <<num, den>>.        *)
(* None (Python's None, or a name not bound yet) is the empty tuple.       *)
(***************************************************************************)
EXTENDS Integers, Sequences, FiniteSets, TLC

VARIABLES
  \* parameters of learn and its collaborators
  n_epochs, batch_size, alpha, b_jumpstart, early_stopping, threshold,
  output_file, num_cores, cpu_count, library, complexity_weight,
  max_length, sample_lengths, env_rewards, env_dones,
  \* control
  pc, iteration, step, t, error,
  \* locals of learn
  pool, r_best, base_r_best, prev_r_best, prev_base_r_best, b, gym_states,
  actions, programs, programs_to_optimize, base_r, r, l, actions_mask,
  stat, new_r_best, new_base_r_best, p_r_best, p_base_r_best, result, done,
  \* collaborators: the log file, the pool, the controller, the environment
  log, pool_created, pool_closed, optimizer_calls, n_samples, trained,
  env_resets, gym_action, stopped, env, calls,
  \* history, for the statements about a whole run
  epochs_started, steps_run, seen_r_max, seen_base_r_max, base_best_at

cfgvars == <<n_epochs, batch_size, alpha, b_jumpstart, early_stopping,
             threshold, output_file, num_cores, cpu_count, library,
             complexity_weight, max_length, sample_lengths, env_rewards,
             env_dones>>

ctlvars == <<pc, iteration, step, t, error>>

locvars == <<pool, r_best, base_r_best, prev_r_best, prev_base_r_best, b,
             gym_states, actions, programs, programs_to_optimize, base_r, r,
             l, actions_mask, stat, new_r_best, new_base_r_best, p_r_best,
             p_base_r_best, result, done>>

extvars == <<log, pool_created, pool_closed, optimizer_calls, n_samples,
             trained, env_resets, gym_action, stopped, env, calls>>

histvars == <<epochs_started, steps_run, seen_r_max, seen_base_r_max,
              base_best_at>>

vars == <<cfgvars, ctlvars, locvars, extvars, histvars>>

----------------------------------------------------------------------------
(* Program constants of train_gym.py.                                      *)

\* one pass too many
StepBudgetLong == 100 + 1

\* for step in range(100)
StepBudget == 100

\* for t in range(100)
TestSteps == 100

\* if iteration > 100
MinIteration == 100

\* early_stopping and base_r > 90
StopReward == 90

\* np.clip(r, -1e6, np.inf)
ClipFloor == -1000000

\* r_best = -np.inf: below every reward of the model
NegInf == -2000000000

----------------------------------------------------------------------------
(* Bounds of the model.                                                    *)

MaxEpochs == 2

MaxBatch == 2

MaxTravLen == 3

LongEpochs == 102

----------------------------------------------------------------------------
(* Values.                                                                 *)

None == <<>>

Some(x) == <<x>>

RECURSIVE Gcd(_, _)
Gcd(x, y) == IF y = 0 THEN x ELSE Gcd(y, x % y)

Abs(x) == IF x < 0 THEN -x ELSE x

\* the rational n/d in lowest terms, d > 0
Rat(n, d) ==
  LET g == Gcd(Abs(n), Abs(d))
      s == IF d < 0 THEN -1 ELSE 1
  IN  <<(s * n) \div g, (s * d) \div g>>

RAdd(x, y) == Rat(x[1] * y[2] + y[1] * x[2], x[2] * y[2])

RMul(x, y) == Rat(x[1] * y[1], x[2] * y[2])

RInt(n) == <<n, 1>>

RECURSIVE SumSeq(_)
SumSeq(s) == IF s = <<>> THEN 0 ELSE Head(s) + SumSeq(Tail(s))

\* np.max
RECURSIVE MaxSeq(_)
MaxSeq(s) ==
  IF Len(s) = 1 THEN s[1]
  ELSE LET m == MaxSeq(Tail(s)) IN IF s[1] >= m THEN s[1] ELSE m

\* np.mean
Mean(s) == Rat(SumSeq(s), Len(s))

\* np.argmax: the first index holding the maximum (1-based here)
ArgMax(s) == CHOOSE i \in 1..Len(s) :
               /\ s[i] = MaxSeq(s)
               /\ \A j \in 1..(i - 1) : s[j] # s[i]

\* Python's max(a, b)
Max2(x, y) == IF y > x THEN y ELSE x

Min2(x, y) == IF y < x THEN y ELSE x

----------------------------------------------------------------------------
(* Programs.  A traversal is a sequence of token names; the constants of a *)
(* program are None until set, and then name the traversal they were       *)
(* optimized for.                                                          *)

\* the traversal of length n the controller's tokens decode to
Traversal(n) ==
  [i \in 1..n |-> IF i = n /\ "const" \in library THEN "const" ELSE "x"]

\* a row of the action batch: max_length token names, padded
ActionRow(trav) ==
  [i \in 1..max_length |-> IF i <= Len(trav) THEN trav[i] ELSE "pad"]

\* dsr.program.from_tokens(a, optimize)
FromTokens(trav, optimize) ==
  [traversal |-> trav, constants |-> IF optimize THEN Some(trav) ELSE None]

\* Program.complexity under the "length" penalty
Complexity(p) == complexity_weight * Len(p.traversal)

\* Program.set_constants
SetConstants(p, c) == [p EXCEPT !.constants = Some(c)]

\* work(p) = p.optimize(): the constants found for p's traversal
Work(p) == p.traversal

\* list(set(ps)): one program per traversal, Program equality being
\* equality of traversals
RECURSIVE Unique(_)
Unique(ps) ==
  IF ps = <<>> THEN <<>>
  ELSE LET rest == Unique(Tail(ps))
       IN  IF \E j \in 1..Len(rest) : rest[j].traversal = Head(ps).traversal
           THEN rest ELSE <<Head(ps)>> \o rest

\* [p for p in programs if base_r is None], base_r being bound
ProgramsToOptimize(ps, br) ==
  Unique(SelectSeq(ps, LAMBDA p : br = None))

\* for optimized_constants, p in zip(results, programs_to_optimize):
\*     p.set_constants(optimized_constants)
\* the programs of the batch are the objects of programs_to_optimize
Broadcast(ps, todo) ==
  [i \in 1..Len(ps) |->
     IF \E j \in 1..Len(todo) : todo[j] = ps[i]
     THEN SetConstants(ps[i], Work(ps[i])) ELSE ps[i]]

----------------------------------------------------------------------------
(* The arithmetic of one rollout step.                                     *)

\* r = np.array([base_r[0] - p.complexity for p in programs])
ShapedRewards(br, ps) == [i \in 1..Len(ps) |-> br[1] - Complexity(ps[i])]

\* l = np.array([len(p.traversal) for p in programs])
Lengths(ps) == [i \in 1..Len(ps) |-> Len(ps[i].traversal)]

\* r = np.clip(r, -1e6, np.inf)
Clip(rs) == [i \in 1..Len(rs) |-> IF rs[i] < ClipFloor THEN ClipFloor ELSE rs[i]]

\* the weights of the moving average exchanged
BaselineSwapped(bp, rs, a) ==
  IF bp = None THEN Mean(rs)
  ELSE RAdd(RMul(RAdd(RInt(1), RMul(RInt(-1), a)), Mean(rs)), RMul(a, bp))

\* b = np.mean(r) if b is None else alpha*np.mean(r) + (1 - alpha)*b
Baseline(bp, rs, a) ==
  IF bp = None THEN Mean(rs)
  ELSE RAdd(RMul(a, Mean(rs)), RMul(RAdd(RInt(1), RMul(RInt(-1), a)), bp))

\* max for min
MaskLengthMax(p) == Max2(Len(p.traversal), max_length)

\* length = min(len(p.traversal), controller.max_length)
MaskLength(p) == Min2(Len(p.traversal), max_length)

\* the mask cut at the rollout step for the length
ActionsMaskByStep(ps) ==
  [k \in 1..max_length |->
     [i \in 1..Len(ps) |->
        IF k <= Min2(MaskLength(ps[i]), step + 1) THEN 1 ELSE 0]]

\* actions_mask = np.zeros_like(actions.T); actions_mask[:length, i] = 1.0
ActionsMask(ps) ==
  [k \in 1..max_length |->
     [i \in 1..Len(ps) |-> IF k <= MaskLength(ps[i]) THEN 1 ELSE 0]]

\* r_best and r_max exchanged
StatsRowSwapped(bb, bm, ba, bs, rb, rm, ra, rs, la, ls, bl) ==
  <<bb, bm, ba, bs, rm, rb, ra, rs, la, ls, bl>>

\* stats = np.array([[base_r_best, base_r_max, base_r_avg_full,
\*   base_r_avg_sub, r_best, r_max, r_avg_full, r_avg_sub, l_avg_full,
\*   l_avg_sub, b]]): the row of the output file
StatsRow(bb, bm, ba, bs, rb, rm, ra, rs, la, ls, bl) ==
  <<bb, bm, ba, bs, rb, rm, ra, rs, la, ls, bl>>

\* >= for >
NewBestOrEqual(prev, mx) == prev = None \/ mx >= prev[1]

\* if prev_r_best is None or r_max > prev_r_best
NewBest(prev, mx) == prev = None \/ mx > prev[1]

\* the reward test without the early_stopping switch
EarlyStopAlways(br) == br[1] > StopReward

\* if early_stopping and base_r > 90
EarlyStop(br) == early_stopping /\ br[1] > StopReward

\* if iteration > 100
TestResult == iteration > MinIteration

\* a break that leaves the epoch loop as well
BreakOut == "return"

\* break: out of the rollout loop, to the head of the epoch loop
BreakTo == "loop"

\* the best program by shaped reward for the one by base reward
BestProgramByR == p_r_best[1]

\* p = p_base_r_best
BestProgram == p_base_r_best[1]

\* an observation of the environment, named by the call that returned it:
\* kind 0 the first reset, 1 a training step, 2 the reset before the test
\* episode, 3 a test step, 4 the reset that restarts training
Obs(kind, it, st) == <<kind, it, st>>

\* env.reset(): a new episode, which returns its first observation
EnvReset(e, o) == [e EXCEPT !.obs = o, !.over = FALSE]

\* env.step(gym_action): the observation, the reward and the done flag it
\* returns; an episode that has ended stays ended until the next reset
EnvStep(e, o, rew, dn) ==
  [obs |-> o, reward |-> Some(rew), over |-> e.over \/ dn,
   steps |-> e.steps + 1]

\* the last program of the batch for the first
StepProgramLast(ps) == ps[Len(ps)]

\* programs[0].execute(np.asarray([gym_states]))
StepProgram(ps) == ps[1]

\* the best program by base reward for the one by shaped reward
TestProgramByBaseR == p_base_r_best[1]

\* p_r_best.execute(np.asarray([gym_states]))
TestProgram == p_r_best[1]

\* lines 183-274: what a rollout step calls and updates, statement by
\* statement: the environment, the rewards and the baseline, the
\* controller, the best programs, the early-stop test
StepCalls ==
  <<"env.step", "rewards", "baseline", "train_step_gym", "best",
    "early_stop">>

\* the baseline of the step before for the one just updated
TrainArgsStale(rs, bl, acts, mask) ==
  [r |-> rs, b |-> b, actions |-> acts, actions_mask |-> mask]

\* controller.train_step_gym(r, b, actions, actions_mask)
TrainArgs(rs, bl, acts, mask) ==
  [r |-> rs, b |-> bl, actions |-> acts, actions_mask |-> mask]

----------------------------------------------------------------------------
(* The runs of the model: the arguments learn is called with, and what its *)
(* collaborators (library, controller, environment, machine) are.          *)

\* rewards of the environment: one that shapes to the clip floor or just
\* below it, one at the early-stop level, one above it
EdgeReward == ClipFloor + 1

Rewards == {EdgeReward, StopReward, StopReward + 1}

Run(ne, bs, al, js, es, th, of, nc, cpus, lib, ml, lens, rews) ==
  [n_epochs |-> ne, batch_size |-> bs, alpha |-> al, b_jumpstart |-> js,
   early_stopping |-> es, threshold |-> th, output_file |-> of,
   num_cores |-> nc, cpu_count |-> cpus, library |-> lib, max_length |-> ml,
   sample_lengths |-> lens, env_rewards |-> rews, env_dones |-> {FALSE}]

\* two-valued alphas keep the exact baseline small; the fraction is used
\* where the baseline is at its fixed point
Half == Rat(1, 2)

NoFile == None

File == Some("out.csv")

\* several epochs, no early stop: the running bests, the baseline, the log
EpochRuns ==
  { Run(ne, 1, al, js, FALSE, 95, of, 1, 2, {"x"}, 2, {1, 2},
        {StopReward, StopReward + 1}) :
      ne \in 0..MaxEpochs, al \in {RInt(0), RInt(1)}, js \in BOOLEAN,
      of \in {NoFile, File} }

\* one epoch, whole batches, rewards at the clip floor
BatchRuns ==
  { Run(1, bs, aj[1], aj[2], FALSE, 95, File, 1, 2, {"x"}, 2, 1..MaxTravLen,
        Rewards) :
      bs \in 1..MaxBatch, aj \in {<<RInt(0), TRUE>>, <<RInt(1), FALSE>>} }

\* early stopping before the test episode is allowed
StopRuns ==
  { Run(ne, 1, RInt(1), TRUE, TRUE, 95, File, 1, 2, {"x"}, 2, {1},
        {StopReward, StopReward + 1}) : ne \in 1..2 }

\* early stopping in every epoch, up to the epoch that runs the test episode
LongRuns ==
  { Run(LongEpochs, 1, Half, TRUE, TRUE, 0, of, 1, 2, {"x"}, 2, {1},
        {StopReward + 1}) : of \in {NoFile, File} }

\* the library with and without the constant token, on one and two cores
PoolRuns ==
  { Run(ne, MaxBatch, RInt(1), TRUE, FALSE, 95, File, nc, cpus, lib, 2,
        {1, 2}, {StopReward}) :
      ne \in 0..MaxEpochs, nc \in {-1, 1, 2}, cpus \in {1, 2},
      lib \in {{"x"}, {"x", "const"}} }

\* as LongRuns, with programs of two lengths: the best program by shaped
\* reward and the best one by base reward differ
LongMixedRuns ==
  { Run(LongEpochs, 1, RInt(1), TRUE, TRUE, 0, File, 1, 2, {"x"}, 2, {1, 2},
        {StopReward + 1}) }

\* an environment whose episodes end: env.step may return done = True
Ending(run) == [run EXCEPT !.env_dones = BOOLEAN]

EndingRuns ==
  { Ending(Run(1, 1, RInt(1), TRUE, es, 95, File, 1, 2, {"x"}, 2, {1},
               {StopReward, StopReward + 1})) : es \in BOOLEAN }
    \cup
  { Ending(Run(LongEpochs, 1, RInt(1), TRUE, TRUE, 0, File, 1, 2, {"x"}, 2,
               {1}, {StopReward + 1})) }

Runs ==
  EpochRuns \cup BatchRuns \cup StopRuns \cup LongRuns \cup PoolRuns
    \cup LongMixedRuns \cup EndingRuns

Init ==
  /\ \E run \in Runs :
       /\ n_epochs = run.n_epochs
       /\ batch_size = run.batch_size
       /\ alpha = run.alpha
       /\ b_jumpstart = run.b_jumpstart
       /\ early_stopping = run.early_stopping
       /\ threshold = run.threshold
       /\ output_file = run.output_file
       /\ num_cores = run.num_cores
       /\ cpu_count = run.cpu_count
       /\ library = run.library
       /\ max_length = run.max_length
       /\ sample_lengths = run.sample_lengths
       /\ env_rewards = run.env_rewards
       /\ env_dones = run.env_dones
  /\ complexity_weight = 1
  /\ pc = "start" /\ iteration = -1 /\ step = -1 /\ t = -1 /\ error = None
  /\ pool = None /\ r_best = None /\ base_r_best = None
  /\ prev_r_best = None /\ prev_base_r_best = None /\ b = None
  /\ gym_states = None /\ actions = None /\ programs = None
  /\ programs_to_optimize = None /\ base_r = None /\ r = None /\ l = None
  /\ actions_mask = None /\ stat = None /\ p_r_best = None
  /\ new_r_best = FALSE /\ new_base_r_best = FALSE
  /\ p_base_r_best = None /\ result = None /\ done = None
  /\ log = [header |-> 0, rows |-> 0, last |-> None]
  /\ pool_created = 0 /\ pool_closed = 0 /\ optimizer_calls = <<>>
  /\ n_samples = 0 /\ trained = [n |-> 0, last |-> None]
  /\ env_resets = 0 /\ gym_action = None /\ stopped = FALSE
  /\ env = [obs |-> None, reward |-> None, over |-> FALSE, steps |-> 0]
  /\ calls = <<>>
  /\ epochs_started = 0 /\ steps_run = 0 /\ seen_r_max = None
  /\ seen_base_r_max = None /\ base_best_at = None

----------------------------------------------------------------------------
(* Lines 113-158: the log file, the pool, the first reset.                 *)

\* num_cores after `if num_cores == -1: num_cores = cpu_count()`
ResolvedCores == IF num_cores = -1 THEN cpu_count ELSE num_cores

\* whether `pool = multiprocessing.Pool(num_cores)` runs
MakesPool == "const" \in library /\ ResolvedCores > 1

Setup ==
  /\ pc = "start"
  /\ log' = IF output_file # None
            THEN [header |-> 1, rows |-> 0, last |-> None] ELSE log
  /\ num_cores' = IF "const" \in library THEN ResolvedCores ELSE num_cores
  /\ pool' = IF MakesPool THEN Some(ResolvedCores) ELSE None
  /\ pool_created' = IF MakesPool THEN pool_created + 1 ELSE pool_created
  /\ r_best' = NegInf
  /\ base_r_best' = NegInf
  /\ prev_r_best' = None
  /\ prev_base_r_best' = None
  /\ b' = IF b_jumpstart THEN None ELSE RInt(0)
  /\ env' = EnvReset(env, Obs(0, 0, 0))
  /\ gym_states' = env'.obs
  /\ env_resets' = env_resets + 1
  /\ pc' = "loop"
  /\ UNCHANGED <<n_epochs, batch_size, alpha, b_jumpstart, early_stopping,
                 threshold, output_file, cpu_count, library,
                 complexity_weight, max_length, sample_lengths, env_rewards,
                 env_dones>>
  /\ UNCHANGED <<iteration, step, t, error>>
  /\ UNCHANGED <<actions, programs, programs_to_optimize, base_r, r, l,
                 actions_mask, stat, new_r_best, new_base_r_best, p_r_best,
                 p_base_r_best, result, done>>
  /\ UNCHANGED <<pool_closed, optimizer_calls, n_samples, trained,
                 gym_action, stopped, calls>>
  /\ UNCHANGED histvars

----------------------------------------------------------------------------
(* Lines 159-178: the head of an epoch.  The controller is sampled, the    *)
(* programs are built, and their constants are optimized, in from_tokens   *)
(* without a pool and by the pool's workers with one.  With a pool the     *)
(* filter reads base_r, which no statement has bound in the first epoch:   *)
(* Python raises NameError there.                                          *)

Sample ==
  /\ pc = "loop"
  /\ iteration + 1 < n_epochs
  /\ iteration' = iteration + 1
  /\ epochs_started' = epochs_started + 1
  /\ n_samples' = n_samples + 1
  /\ \E lens \in [1..batch_size -> sample_lengths] :
       LET travs == [i \in 1..batch_size |-> Traversal(lens[i])]
           plain == [i \in 1..batch_size |-> FromTokens(travs[i], FALSE)]
           todo  == ProgramsToOptimize(plain, base_r)
       IN  /\ actions' = [i \in 1..batch_size |-> ActionRow(travs[i])]
           /\ IF pool = None
              THEN /\ programs' =
                        [i \in 1..batch_size |-> FromTokens(travs[i], TRUE)]
                   /\ pc' = "rollout"
                   /\ step' = 0
                   /\ UNCHANGED <<programs_to_optimize, optimizer_calls,
                                  error>>
              ELSE IF base_r = None
              THEN /\ programs' = plain
                   /\ pc' = "failed"
                   /\ error' = Some("NameError")
                   /\ UNCHANGED <<programs_to_optimize, optimizer_calls,
                                  step>>
              ELSE \* pool.map re-raises the exception of a task that failed
                   \E raised \in SUBSET (1..Len(todo)) :
                     /\ programs_to_optimize' = todo
                     /\ optimizer_calls' =
                          [j \in 1..Len(todo) |-> todo[j].traversal]
                     /\ IF raised # {}
                        THEN /\ programs' = plain
                             /\ pc' = "failed"
                             /\ error' = Some("WorkerError")
                             /\ UNCHANGED step
                        ELSE /\ programs' = Broadcast(plain, todo)
                             /\ pc' = "rollout"
                             /\ step' = 0
                             /\ UNCHANGED error
  /\ UNCHANGED cfgvars
  /\ UNCHANGED t
  /\ UNCHANGED <<pool, r_best, base_r_best, prev_r_best, prev_base_r_best, b,
                 gym_states, base_r, r, l, actions_mask, stat, new_r_best,
                 new_base_r_best, p_r_best, p_base_r_best, result, done>>
  /\ UNCHANGED <<log, pool_created, pool_closed, trained, env_resets,
                 gym_action, stopped, env, calls>>
  /\ UNCHANGED <<steps_run, seen_r_max, seen_base_r_max, base_best_at>>

----------------------------------------------------------------------------
(* Lines 180-299: one pass of `for step in range(100)`.  The environment   *)
(* answers the action with any of its rewards.                             *)

RolloutStep ==
  /\ pc = "rollout"
  /\ \E base_reward \in env_rewards, dn \in env_dones :
       LET stepped == EnvStep(env, Obs(1, iteration, step), base_reward, dn)
           base_r1 == <<stepped.reward[1]>>
           r0 == ShapedRewards(base_r1, programs)
           l1 == Lengths(programs)
           base_r_max == MaxSeq(base_r1)
           base_r_best1 == Max2(base_r_max, base_r_best)
           base_r_avg_full == Mean(base_r1)
           r_max == MaxSeq(r0)
           r_best1 == Max2(r_max, r_best)
           r_avg_full == Mean(r0)
           l_avg_full == Mean(l1)
           r1 == Clip(r0)
           b1 == Baseline(b, r1, alpha)
           row == StatsRow(base_r_best1, base_r_max, base_r_avg_full,
                           Mean(base_r1), r_best1, r_max, r_avg_full,
                           Mean(r1), l_avg_full, Mean(l1), b1)
           mask == ActionsMask(programs)
           stop == EarlyStop(base_r1)
       IN  /\ gym_action' = [program |-> StepProgram(programs),
                           state |-> gym_states]
           /\ done' = dn
           /\ base_r' = base_r1
           /\ r' = r1
           /\ l' = l1
           /\ stat' = [base_r_max |-> base_r_max,
                       base_r_avg_full |-> base_r_avg_full,
                       r_max |-> r_max, r_avg_full |-> r_avg_full,
                       l_avg_full |-> l_avg_full]
           /\ base_r_best' = base_r_best1
           /\ r_best' = r_best1
           /\ b' = b1
           /\ log' = IF output_file # None
                     THEN [log EXCEPT !.rows = @ + 1, !.last = row] ELSE log
           /\ actions_mask' = mask
           /\ trained' = [n |-> trained.n + 1,
                          last |-> TrainArgs(r1, b1, actions, mask)]
           /\ new_r_best' = NewBest(prev_r_best, r_max)
           /\ new_base_r_best' = NewBest(prev_base_r_best, base_r_max)
           /\ p_r_best' = IF NewBest(prev_r_best, r_max)
                          THEN Some(programs[ArgMax(r1)]) ELSE p_r_best
           /\ p_base_r_best' = IF NewBest(prev_base_r_best, base_r_max)
                               THEN Some(programs[ArgMax(base_r1)])
                               ELSE p_base_r_best
           /\ prev_r_best' = Some(r_best1)
           /\ prev_base_r_best' = Some(base_r_best1)
           /\ stopped' = stop
           /\ calls' = StepCalls \o (IF stop THEN <<"env.reset">> ELSE <<>>)
           /\ IF stop /\ TestResult
              THEN \* gym_states = env.reset(); for t in range(100)
                   /\ env' = EnvReset(stepped, Obs(2, iteration, step))
                   /\ gym_states' = env'.obs
                   /\ env_resets' = env_resets + 1
                   /\ pc' = "test"
                   /\ t' = 0
                   /\ UNCHANGED step
              ELSE IF stop
              THEN \* gym_states = env.reset(); break
                   /\ env' = EnvReset(stepped, Obs(4, iteration, step))
                   /\ gym_states' = env'.obs
                   /\ env_resets' = env_resets + 1
                   /\ pc' = BreakTo
                   /\ UNCHANGED <<step, t>>
              ELSE /\ env' = stepped
                   /\ gym_states' = env'.obs
                   /\ UNCHANGED <<env_resets, t>>
                   /\ IF step + 1 < StepBudget
                      THEN step' = step + 1 /\ pc' = "rollout"
                      ELSE step' = step /\ pc' = "loop"
           /\ seen_r_max' = IF seen_r_max = None \/ r_max > seen_r_max[1]
                            THEN Some(r_max) ELSE seen_r_max
           /\ seen_base_r_max' =
                IF seen_base_r_max = None \/ base_r_max > seen_base_r_max[1]
                THEN Some(base_r_max) ELSE seen_base_r_max
           /\ base_best_at' =
                IF base_r_best1 > base_r_best
                THEN Some([program |-> programs[ArgMax(base_r1)],
                           base_r |-> base_r_max])
                ELSE base_best_at
  /\ steps_run' = steps_run + 1
  /\ UNCHANGED cfgvars
  /\ UNCHANGED <<iteration, error>>
  /\ UNCHANGED <<pool, actions, programs, programs_to_optimize, result>>
  /\ UNCHANGED <<pool_created, pool_closed, optimizer_calls, n_samples>>
  /\ UNCHANGED epochs_started

----------------------------------------------------------------------------
(* Lines 280-291: one pass of the test episode that follows an early stop  *)
(* once iteration > 100, and after its last pass the reset and the break.  *)

TestStep ==
  /\ pc = "test"
  /\ \E base_reward \in env_rewards, dn \in env_dones :
       LET stepped == EnvStep(env, Obs(3, iteration, t), base_reward, dn)
       IN
       /\ gym_action' = [program |-> TestProgram, state |-> gym_states]
       /\ done' = dn
       /\ IF t + 1 < TestSteps
          THEN /\ env' = stepped
               /\ gym_states' = env'.obs
               /\ t' = t + 1
               /\ pc' = "test"
               /\ UNCHANGED env_resets
          ELSE /\ env' = EnvReset(stepped, Obs(4, iteration, step))
               /\ gym_states' = env'.obs
               /\ env_resets' = env_resets + 1
               /\ t' = t
               /\ pc' = BreakTo
  /\ UNCHANGED cfgvars
  /\ UNCHANGED <<iteration, step, error>>
  /\ UNCHANGED <<pool, r_best, base_r_best, prev_r_best, prev_base_r_best, b,
                 actions, programs, programs_to_optimize, base_r, r, l,
                 actions_mask, stat, new_r_best, new_base_r_best, p_r_best,
                 p_base_r_best, result>>
  /\ UNCHANGED <<log, pool_created, pool_closed, optimizer_calls, n_samples,
                 trained, stopped, calls>>
  /\ UNCHANGED histvars

----------------------------------------------------------------------------
(* Lines 302-303: the loop is over, the pool is closed.                    *)

ClosePool ==
  /\ pc = "loop"
  /\ ~(iteration + 1 < n_epochs)
  /\ pool_closed' = IF pool # None THEN pool_closed + 1 ELSE pool_closed
  /\ pc' = "return"
  /\ UNCHANGED cfgvars
  /\ UNCHANGED <<iteration, step, t, error>>
  /\ UNCHANGED locvars
  /\ UNCHANGED <<log, pool_created, optimizer_calls, n_samples, trained,
                 env_resets, gym_action, stopped, env, calls>>
  /\ UNCHANGED histvars

----------------------------------------------------------------------------
(* Lines 305-319: the result.  p_base_r_best, r and base_r are bound only  *)
(* by a rollout step: without one Python raises UnboundLocalError.         *)

Return ==
  /\ pc = "return"
  /\ IF p_base_r_best = None
     THEN /\ pc' = "failed"
          /\ error' = Some("UnboundLocalError")
          /\ UNCHANGED result
     ELSE /\ pc' = "done"
          /\ result' = [r |-> r, base_r |-> base_r,
                        expression |-> BestProgram,
                        traversal |-> BestProgram.traversal]
          /\ UNCHANGED error
  /\ UNCHANGED cfgvars
  /\ UNCHANGED <<iteration, step, t>>
  /\ UNCHANGED <<pool, r_best, base_r_best, prev_r_best, prev_base_r_best, b,
                 gym_states, actions, programs, programs_to_optimize, base_r,
                 r, l, actions_mask, stat, new_r_best, new_base_r_best,
                 p_r_best, p_base_r_best, done>>
  /\ UNCHANGED extvars
  /\ UNCHANGED histvars

----------------------------------------------------------------------------

Next ==
  \/ Setup
  \/ Sample
  \/ RolloutStep
  \/ TestStep
  \/ ClosePool
  \/ Return

Spec == Init /\ [][Next]_vars

----------------------------------------------------------------------------
(* Properties of learn.                                                    *)

\* a training rollout step is what adds to steps_run
Stepped == steps_run' # steps_run

\* the programs the arrays of the last rollout step were computed from are
\* still the batch: a step of this epoch has run
BatchStepped == actions_mask # None /\ ~(pc = "rollout" /\ step = 0)

\* the rational x is at least the integer n
RAtLeast(x, n) == x[1] >= n * x[2]

\* C1: after every rollout step the mask handed to the controller is
\* max_length rows by batch_size columns of 0 and 1, and column i holds
\* exactly min(len(traversal i), max_length) ones, all of them before any 0.
C1_MaskIsPrefix ==
  BatchStepped =>
    /\ trained.last.actions_mask = actions_mask
    /\ Len(actions_mask) = max_length
    /\ \A k \in 1..max_length :
         /\ Len(actions_mask[k]) = batch_size
         /\ \A i \in 1..batch_size : actions_mask[k][i] \in {0, 1}
    /\ \A i \in 1..batch_size :
         LET n == Len(programs[i].traversal)
             ones == {k \in 1..max_length : actions_mask[k][i] = 1}
         IN  /\ Cardinality(ones) = IF n < max_length THEN n ELSE max_length
             /\ \A k \in ones : \A j \in 1..k : j \in ones

\* a batch with a traversal shorter and one longer than max_length
C1_Witness ==
  /\ BatchStepped
  /\ \E i \in 1..batch_size : Len(programs[i].traversal) < max_length
  /\ \E i \in 1..batch_size : Len(programs[i].traversal) > max_length

\* C2: before the first rollout step the baseline is unset with b_jumpstart
\* and 0 without; the first step with b_jumpstart sets it to the mean of
\* that step's shaped rewards; every other step sets it to
\* alpha*m + (1 - alpha)*b_prev; the controller update of the step receives
\* the new value.
C2_BaselineLifecycle ==
  /\ [](pc # "start" /\ steps_run = 0 =>
          b = IF b_jumpstart THEN None ELSE <<0, 1>>)
  /\ [][Stepped =>
          LET sum == SumSeq(r')
              n == Len(r')
          IN  /\ trained'.last.b = b'
              /\ trained'.last.r = r'
              /\ b'[2] > 0
              /\ IF b = None
                 THEN b'[1] * n = b'[2] * sum
                 ELSE b'[1] * (alpha[2] * n * b[2]) =
                        b'[2] * (alpha[1] * sum * b[2]
                                 + (alpha[2] - alpha[1]) * b[1] * n)]_vars

\* a baseline that started at a batch mean and is no longer the batch mean
C2_Witness ==
  /\ b_jumpstart /\ steps_run >= 2
  /\ b # None /\ b # Mean(r)

\* C3 as stated: every shaped-reward statistic of the step's row, and the
\* batch maximum best tracking compares, is computed from the clipped
\* rewards and so is never below -1e6.
C3_StatisticsClipped ==
  /\ stat # None => stat.r_max >= ClipFloor
  /\ log.last # None =>
       /\ log.last[5] >= ClipFloor
       /\ log.last[6] >= ClipFloor
       /\ RAtLeast(log.last[7], ClipFloor)
       /\ RAtLeast(log.last[8], ClipFloor)

\* C4 as stated: with a pool, once the programs of a batch that holds one
\* traversal more than once are built, the optimizer has run exactly once
\* for it and every occurrence has the constants found for it.
C4_OptimizedOncePerTraversal ==
  (pool # None /\ programs # None
   /\ \E i, j \in 1..batch_size :
        i # j /\ programs[i].traversal = programs[j].traversal)
  => /\ pc # "failed"
     /\ \A i \in 1..batch_size :
          /\ Cardinality({j \in 1..Len(optimizer_calls) :
                            optimizer_calls[j] = programs[i].traversal}) = 1
          /\ programs[i].constants = Some(programs[i].traversal)

\* C5: r_best and base_r_best never decrease; after each rollout step each
\* is the largest batch maximum of the steps so far; the reference of each
\* is assigned at a step exactly when the step's batch maximum is above the
\* running maximum before the step, or the step is the first of the run,
\* and is otherwise left as it was.
C5_RunningMaxima ==
  /\ [](seen_r_max # None =>
          /\ r_best = seen_r_max[1]
          /\ base_r_best = seen_base_r_max[1])
  /\ [][pc # "start" => r_best' >= r_best /\ base_r_best' >= base_r_best]_vars
  /\ [][Stepped =>
          /\ new_r_best' <=> (steps_run = 0 \/ stat'.r_max > r_best)
          /\ new_base_r_best' <=>
               (steps_run = 0 \/ stat'.base_r_max > base_r_best)
          /\ new_r_best' => p_r_best'[1] \in {programs[i] : i \in 1..batch_size}
          /\ new_base_r_best' =>
               p_base_r_best'[1] \in {programs[i] : i \in 1..batch_size}
          /\ ~new_r_best' => p_r_best' = p_r_best
          /\ ~new_base_r_best' => p_base_r_best' = p_base_r_best]_vars

\* a later step raises the best base reward and leaves the best shaped
\* reward, and its program, alone
C5_Witness ==
  /\ steps_run > 1 /\ iteration >= 1
  /\ new_base_r_best /\ ~new_r_best
  /\ p_r_best # p_base_r_best

\* C6: when learn returns, exactly n_epochs epochs were started, the
\* expression and traversal of the result are those of the program of the
\* step at which base_r_best last rose, whose base reward at that step is
\* the largest of the run, and r and base_r of the result are the arrays of
\* the last rollout step.
C6_ResultIsBestByBaseR ==
  pc = "done" =>
    /\ epochs_started = n_epochs
    /\ iteration = n_epochs - 1
    /\ result.expression = base_best_at[1].program
    /\ result.traversal = base_best_at[1].program.traversal
    /\ base_best_at[1].base_r = seen_base_r_max[1]
    /\ result.r = trained.last.r
    /\ result.base_r = base_r
    /\ result.base_r = <<stat.base_r_max>>

\* the result is a program of the first epoch, not of the last batch and not
\* the best by shaped reward
C6_Witness ==
  /\ pc = "done" /\ n_epochs = 2
  /\ result.traversal # programs[1].traversal
  /\ result.expression # p_r_best[1]

\* C7 as stated: a pool exists exactly when the library holds the constant
\* token and the resolved core count is above 1, is created once, and has
\* been shut down exactly once when learn is over.
C7_PoolLifecycle ==
  /\ pc # "start" =>
       /\ pool # None <=> ("const" \in library /\ ResolvedCores > 1)
       /\ pool_created = IF pool # None THEN 1 ELSE 0
  /\ pool_closed <= pool_created
  /\ (pool # None /\ pc \in {"done", "failed"}) => pool_closed = 1

\* C8: a rollout step at which early stopping fires is the last training
\* step of its epoch and resets the environment; the next epoch, if any,
\* is then sampled and starts at step 0; and when the loop is left, n_epochs
\* epochs have been started.
C8_StopEndsEpochOnly ==
  /\ [][(Stepped /\ stopped') =>
          /\ pc' \in {"loop", "test"}
          /\ env_resets' = env_resets + 1
          /\ gym_states'[1] \in {2, 4}
          /\ iteration' = iteration
          /\ epochs_started' = epochs_started]_vars
  /\ [][pc = "test" => pc' \in {"test", "loop"} /\ ~Stepped]_vars
  /\ [][(pc = "loop" /\ stopped /\ iteration + 1 < n_epochs) =>
          /\ pc' = "rollout"
          /\ iteration' = iteration + 1
          /\ step' = 0
          /\ n_samples' = n_samples + 1
          /\ gym_states' = gym_states]_vars
  /\ [](pc \in {"return", "done"} => epochs_started = n_epochs)

\* the second epoch starts after an early stop cut the first one short
C8_Witness ==
  /\ pc = "rollout" /\ iteration = 1 /\ step = 0
  /\ stopped /\ gym_states[1] = 4
  /\ steps_run < StepBudget

\* C9 as stated: the early-stop transition is taken only with early
\* stopping on, the step's base reward above the threshold parameter and
\* more than the minimum of iterations behind; with early stopping off no
\* step stops, every epoch runs all its steps, no test episode runs and the
\* environment is reset once.
C9_StopOnlyAboveThreshold ==
  /\ (stopped /\ pc \in {"loop", "test"}) =>
       /\ early_stopping
       /\ base_r[1] > threshold
       /\ iteration > MinIteration
  /\ ~early_stopping =>
       /\ ~stopped /\ pc # "test" /\ env_resets <= 1
       /\ (pc = "loop" /\ iteration >= 0) => step = StepBudget - 1

\* C10: with no output file nothing is written; with one the header is
\* written once, before the first epoch, one row is appended by every
\* training rollout step and by nothing else, and a row is the 11 values
\* base_r_best, base_r_max, base_r_avg_full, base_r_avg_sub, r_best, r_max,
\* r_avg_full, r_avg_sub, l_avg_full, l_avg_sub, baseline of its step.
C10_OutputLog ==
  /\ output_file = None => log = [header |-> 0, rows |-> 0, last |-> None]
  /\ (output_file # None /\ pc # "start") =>
       /\ log.header = 1
       /\ log.rows = steps_run
       /\ log.rows = 0 <=> log.last = None
       /\ log.rows > 0 =>
            /\ Len(log.last) = 11
            /\ log.last[1] = base_r_best
            /\ log.last[2] = stat.base_r_max
            /\ log.last[3] = stat.base_r_avg_full
            /\ log.last[4][1] = log.last[4][2] * base_r[1]
            /\ log.last[5] = r_best
            /\ log.last[6] = stat.r_max
            /\ log.last[7] = stat.r_avg_full
            /\ log.last[8][1] * Len(r) = log.last[8][2] * SumSeq(r)
            /\ log.last[9] = stat.l_avg_full
            /\ log.last[10][1] * Len(l) = log.last[10][2] * SumSeq(l)
            /\ log.last[11] = b

\* the test episode after an early stop: its steps add no row
C10_Witness ==
  /\ output_file # None /\ pc = "test" /\ t = TestSteps - 1
  /\ log.rows = steps_run /\ log.rows > 0

\* C11: the controller is sampled exactly once per epoch; a rollout step
\* leaves the batch of programs and the sampled actions as they are and
\* hands the controller update those actions and, from the second step of
\* an epoch on, the mask of the step before; the batch changes only where
\* an epoch starts.
C11_OneBatchPerEpoch ==
  /\ [](pc # "start" => n_samples = iteration + 1)
  /\ [][Stepped =>
          /\ n_samples' = n_samples
          /\ programs' = programs
          /\ actions' = actions
          /\ trained'.last.actions = actions
          /\ step > 0 =>
               /\ trained'.last.actions = trained.last.actions
               /\ trained'.last.actions_mask = trained.last.actions_mask]_vars
  /\ [][programs' # programs \/ actions' # actions =>
          /\ pc = "loop"
          /\ iteration' = iteration + 1
          /\ n_samples' = n_samples + 1]_vars

\* the third step of a second epoch whose batch is not the first epoch's
C11_Witness ==
  /\ pc = "rollout" /\ iteration = 1 /\ step = 2
  /\ trained.n = StepBudget + 2
  /\ p_base_r_best[1] # programs[1]
  /\ trained.last.actions = actions

\* C12: env.reset is called once before the first epoch and, after that,
\* only by a rollout step at which early stopping fires (early_stopping is
\* set and the step's base reward is above the stop level) and by the last
\* step of the test episode that follows; the start of an epoch leaves the
\* environment and gym_states alone, so that the first step of an epoch
\* that follows an epoch without early stop starts from the observation
\* the last step of that epoch returned.
C12_ResetPoints ==
  /\ [][env_resets' # env_resets =>
          /\ env_resets' = env_resets + 1
          /\ \/ pc = "start"
             \/ pc = "rollout" /\ early_stopping /\ base_r'[1] > StopReward
             \/ pc = "test" /\ stopped /\ t = TestSteps - 1]_vars
  /\ [][env'.obs # env.obs /\ env'.steps = env.steps =>
          env_resets' = env_resets + 1]_vars
  /\ [][pc = "loop" =>
          env' = env /\ gym_states' = gym_states
            /\ env_resets' = env_resets]_vars
  /\ [](pc = "rollout" /\ step = 0 /\ iteration >= 1 /\ ~stopped =>
          /\ gym_states = Obs(1, iteration - 1, StepBudget - 1)
          /\ gym_states = env.obs)

\* early stopping is on and did not fire in the first epoch: the second
\* epoch starts where the hundredth step of the first left the environment
C12_Witness ==
  /\ pc = "rollout" /\ step = 0 /\ iteration = 1
  /\ early_stopping /\ ~stopped
  /\ env_resets = 1 /\ env.steps = StepBudget
  /\ gym_states = Obs(1, 0, StepBudget - 1)

\* the baseline bn is one update of the baseline bp by the rewards rs
UpdatedOnce(bp, bn, rs) ==
  LET sum == SumSeq(rs)
      n == Len(rs)
  IN  /\ bn # None
      /\ IF bp = None
         THEN bn[1] * n = bn[2] * sum
         ELSE bn[1] * (alpha[2] * n * bp[2]) =
                bn[2] * (alpha[1] * sum * bp[2]
                         + (alpha[2] - alpha[1]) * bp[1] * n)

\* the place of the call c among the calls of the last rollout step
CallAt(c) == {k \in 1..Len(calls) : calls[k] = c}

\* C13: whenever a rollout step can run, every program of the batch has
\* its optimized constants; a rollout step steps the environment once,
\* computes its rewards from the reward of that step, updates the baseline
\* once from them, trains the controller once on those rewards and the
\* updated baseline, updates the best tracking and then tests for early
\* stopping, each once and in this order; the step at which early stopping
\* fires has trained the controller too.
C13_StepOrder ==
  /\ [](pc = "rollout" =>
          \A i \in 1..batch_size :
            programs[i].constants = Some(programs[i].traversal))
  /\ [][Stepped =>
          /\ \A c \in {calls'[k] : k \in 1..Len(calls')} \cup
                      {"env.step", "rewards", "baseline", "train_step_gym",
                       "best", "early_stop"} :
               Cardinality(CallAt(c)') = 1
          /\ LET at(c) == CHOOSE k \in 1..Len(calls') : calls'[k] = c
             IN  /\ at("env.step") < at("rewards")
                 /\ at("rewards") < at("baseline")
                 /\ at("baseline") < at("train_step_gym")
                 /\ at("train_step_gym") < at("best")
                 /\ at("best") < at("early_stop")
          /\ env'.steps = env.steps + 1
          /\ base_r' = <<env'.reward[1]>>
          /\ UpdatedOnce(b, b', r')
          /\ trained'.n = trained.n + 1
          /\ trained'.last.r = r' /\ trained'.last.b = b'
          /\ prev_r_best' = Some(r_best')
          /\ prev_base_r_best' = Some(base_r_best')
          /\ p_r_best' # None /\ p_base_r_best' # None
          /\ stopped' <=> (pc' # "rollout" /\ env_resets' # env_resets)]_vars
  /\ [](trained.n = steps_run /\ env.steps >= steps_run)

\* early stopping fires at a later step of an epoch, and that step moved
\* the baseline, trained the controller and recorded a new best program
C13_Witness ==
  /\ stopped /\ step > 0 /\ pc = "loop"
  /\ trained.n = step + 1
  /\ trained.last.b = b /\ b = Mean(r)
  /\ new_base_r_best
  /\ calls[Len(calls)] = "env.reset"

\* C14 as stated: after a rollout step that replaced the best program by
\* shaped reward, the recorded program is a program of the batch whose
\* entry in the reward array the controller update received is the maximum
\* of that array and is the batch maximum r_max that was compared with the
\* running best.
C14_NoStaleBest ==
  (BatchStepped /\ new_r_best) =>
    \E i \in 1..batch_size :
      /\ programs[i] = p_r_best[1]
      /\ trained.last.r[i] = MaxSeq(trained.last.r)
      /\ trained.last.r[i] = stat.r_max

\* C15: the test episode starts on the observation of a reset made after
\* the stopping step; each of its steps executes the best program by
\* shaped reward on the latest observation and steps the environment once,
\* and leaves the controller (no sample, no training step), the baseline,
\* r_best, base_r_best, both best programs, the batch and the log as they
\* are; it makes TestSteps steps and its last step resets the environment
\* and goes back to the head of the epoch loop.
C15_TestEpisodeFrame ==
  /\ [][pc = "rollout" /\ pc' = "test" =>
          /\ stopped' /\ t' = 0
          /\ gym_states' = Obs(2, iteration, step)
          /\ env'.obs = gym_states' /\ ~env'.over]_vars
  /\ [][pc = "test" =>
          /\ gym_action' = [program |-> p_r_best[1], state |-> env.obs]
          /\ env'.steps = env.steps + 1
          /\ n_samples' = n_samples /\ trained' = trained
          /\ b' = b /\ r_best' = r_best /\ base_r_best' = base_r_best
          /\ p_r_best' = p_r_best /\ p_base_r_best' = p_base_r_best
          /\ programs' = programs /\ actions' = actions
          /\ log' = log
          /\ IF t < TestSteps - 1
             THEN /\ pc' = "test" /\ t' = t + 1
                  /\ env_resets' = env_resets
                  /\ gym_states' = Obs(3, iteration, t)
             ELSE /\ pc' = "loop"
                  /\ env_resets' = env_resets + 1
                  /\ gym_states' = Obs(4, iteration, step)
                  /\ env'.obs = gym_states' /\ ~env'.over]_vars
  /\ [](pc = "test" => t \in 0..(TestSteps - 1) /\ iteration > MinIteration)

\* a test episode is over; it was driven by a best program by shaped
\* reward that is not the best program by base reward
C15_Witness ==
  /\ pc = "loop" /\ stopped /\ iteration > MinIteration
  /\ t = TestSteps - 1
  /\ env.steps = steps_run + TestSteps
  /\ gym_action.program = p_r_best[1]
  /\ p_r_best # p_base_r_best
  /\ log.rows = trained.n

\* C16 as stated: no step of learn, in a training rollout or in the test
\* episode, calls env.step on an episode that has returned done = True and
\* has not been reset since.
C16_NoStepAfterDone ==
  [][env'.steps # env.steps => ~env.over]_vars

\* how far learn has come: the epochs begun, and within the epoch the
\* rollout steps and after them the test steps
Rank ==
  LET k == StepBudget + TestSteps + 2
      e == 1 + (iteration + 1) * k
  IN  CASE pc = "start" -> 0
        [] pc = "rollout" -> e + step
        [] pc = "test" -> e + StepBudget + t
        [] pc = "loop" -> e + k - 1
        [] pc = "return" -> 1 + (n_epochs + 1) * k
        [] OTHER -> 2 + (n_epochs + 1) * k

\* C17: a rollout step is step 0 to 99 of its epoch, the first one step 0;
\* a rollout step either goes on to the next step or leaves the rollout,
\* and it leaves either because early stopping fired or, if it did not,
\* because it was step 99; the controller is updated at most 100 times per
\* epoch begun, at most 100*n_epochs times in all; every step of learn
\* takes it further in an order bounded by n_epochs, so learn takes
\* finitely many steps.
C17_BoundedRollout ==
  /\ [][pc = "loop" /\ pc' = "rollout" => step' = 0]_vars
  /\ [][Stepped =>
          /\ pc = "rollout" /\ step \in 0..99
          /\ trained'.n = trained.n + 1
          /\ IF pc' = "rollout"
             THEN step' = step + 1 /\ ~stopped'
             ELSE /\ stopped' \/ step = 99
                  /\ stopped' => early_stopping
                  /\ pc' \in {"loop", "test"}]_vars
  /\ [][trained'.n # trained.n => Stepped]_vars
  /\ [](trained.n <= 100 * epochs_started /\ epochs_started <= n_epochs)
  /\ [](pc = "loop" /\ iteration >= 0 =>
          trained.n >= epochs_started /\ step \in 0..99)
  /\ [][Rank' > Rank]_vars
  /\ [](Rank <= 2 + (n_epochs + 1) * (StepBudget + TestSteps + 2))

\* a run of two epochs is over: the first epoch used its whole budget, the
\* second was cut short by early stopping
C17_Witness ==
  /\ pc = "done" /\ n_epochs = 2 /\ stopped
  /\ trained.n > 100 /\ trained.n < 200
  /\ step < 99

C19_StateThreading ==
  /\ [](pc # "start" => gym_states = env.obs)
  /\ [][Stepped =>
          /\ gym_action' = [program |-> programs[1], state |-> env.obs]
          /\ env'.steps = env.steps + 1
          /\ base_r' = <<env'.reward[1]>>
          /\ Len(r') = batch_size
          /\ \A i \in 1..batch_size :
               r'[i] = Max2(ClipFloor,
                            env'.reward[1] - Complexity(programs[i]))]_vars
  /\ [][Stepped /\ step = 0 /\ iteration > 0 =>
          \E st \in 0..(StepBudget - 1) :
            /\ stopped \/ st = StepBudget - 1
            /\ gym_action'.state =
                 Obs(IF stopped THEN 4 ELSE 1, iteration - 1, st)]_vars

\* a later step of a batch of two programs of different complexity
C19_Witness ==
  /\ BatchStepped /\ batch_size = 2 /\ step > 0
  /\ programs[1] # programs[2]
  /\ gym_action.program = programs[1]
  /\ gym_action.state = Obs(1, iteration, step - 1)
  /\ r[1] # r[2]

\* C20 as stated: wherever learn reads a best program it has been
\* assigned: p_r_best after every rollout step (the progress prints) and
\* in the test episode, p_base_r_best where the result is made; learn
\* never fails on an unassigned one.
C20_BestProgramsBound ==
  /\ steps_run > 0 => p_r_best # None /\ p_base_r_best # None
  /\ pc = "test" => p_r_best # None
  /\ pc = "done" => p_base_r_best # None
  /\ error # Some("UnboundLocalError")

====
